---- MODULE Spec2Model ----
(***************************************************************************)
(* The ecpglib auto-memory registry (src/interfaces/ecpg/ecpglib/memory.c) *)
(* built with ENABLE_THREAD_SAFETY: one singly linked list of struct       *)
(* auto_mem per thread, reached through the thread-specific value of       *)
(* auto_mem_key.  Heap blocks are never reused in the model (every calloc  *)
(* returns a fresh address), so a second free of one block is visible as a *)
(* release count of 2.                                                     *)
(*                                                                         *)
(* struct auto_mem keeps `pointer` and the one-bit field                   *)
(* `auto_clear_disabled` in one union: the flag is bit 0 of the stored     *)
(* pointer word (little-endian bit-field layout).  The model keeps the     *)
(* word as a number and reads and writes the flag with % 2 arithmetic.     *)
(***************************************************************************)
EXTENDS Integers, Sequences, FiniteSets, TLC

\* ------------------------------------------------------------------ bounds
MaxNodes == 4          \* struct auto_mem blocks calloc can hand out
MaxBlocks == 3         \* payload blocks calloc can hand out
MaxNodesMT == 2        \* the same two limits where two threads interleave
MaxBlocksMT == 2

NULL == 0

Threads == {1, 2}
\* The threads whose calls Spec interleaves.
Callers == {1}
NodeIds == 1..MaxNodes
\* Payload block k lives at the even address 2k (malloc results are aligned).
BlockAddr(k) == 2 * k
\* Every word ecpg_free can be handed: block addresses and those with bit 0 set.
Addrs == 1..(2 * MaxBlocks + 1)

VARIABLES
    slot,        \* slot[t]: pthread_getspecific(auto_mem_key) of thread t
    node,        \* node[n]: the words of struct auto_mem n (pointer, next)
    nalloc,      \* struct auto_mem blocks handed out so far
    balloc,      \* payload blocks handed out so far
    nfree,       \* nfree[n]: times ecpg_free was called on node n
    pfree,       \* pfree[a]: times ecpg_free was called on address a
    keyCreated,  \* times auto_mem_key_init has run
    once,        \* auto_mem_once: "init", "running" (a thread is inside
                 \*   auto_mem_key_init) or "done"
    pc,          \* pc[t]: "idle", or "init" while t runs auto_mem_key_init
    alive,       \* alive[t]: "run" or "exited"
    crashed,     \* the process died on a store through a null pointer
    regs,        \* history: regs[t] = <<node, pointer>> pairs t registered
                 \*   since its list was last emptied
    disabled,    \* history: disabled[t] = a disable call completed on t and
                 \*   no release_all ran since
    last,        \* history: the call that made the latest step
    prev         \* history: thread and operation of the two steps before it,
                 \*   latest first (kept empty where two threads interleave)

vars == <<slot, node, nalloc, balloc, nfree, pfree, keyCreated, once, pc,
          alive, crashed, regs, disabled, last, prev>>

\* ------------------------------------------------- struct auto_mem (union)
\* uintptr_t auto_clear_disabled:1 read from the word that holds `pointer`.
Flag(w) == w % 2

\* am->auto_clear_disabled = b, written into the word that holds `pointer`.
SetFlag(w, b) == (w - (w % 2)) + b

BlankNode == [pointer |-> NULL, next |-> NULL]

\* ------------------------------------------------------------ ecpg_alloc
\* calloc of a struct auto_mem: the next fresh node, or NULL on failure.
AllocNode(ok) == IF ok THEN nalloc + 1 ELSE NULL

\* calloc of a payload block: the next fresh address, or NULL on failure.
AllocBlock(ok) == IF ok THEN BlockAddr(balloc + 1) ELSE NULL

\* ------------------------------------------------------- get_auto_allocs
\* pthread_once(&auto_mem_once, auto_mem_key_init): the key is made on the
\* first call only.
OnceKey(k) == IF k = 0 THEN 1 ELSE k

\* Mutant: a caller that finds the routine started does not wait for it.
OnceReturns_NoWait(o) == o # "init"

\* pthread_once lets a caller that does not run auto_mem_key_init itself go
\* on only when the routine has completed.
OnceReturns(o) == o = "done"

\* pthread_getspecific(auto_mem_key) of thread t.
get_auto_allocs(s, t) == s[t]

\* ------------------------------------------------------- set_auto_allocs
\* Mutant: one list head for the whole process (the static auto_allocs of
\* the build without ENABLE_THREAD_SAFETY) written by every thread.
set_auto_allocs_Shared(s, t, am) == [u \in DOMAIN s |-> am]

\* pthread_setspecific(auto_mem_key, am) by thread t.
set_auto_allocs(s, t, am) == [s EXCEPT ![t] = am]

\* --------------------------------------------------------------- ecpg_free
CountIn(seq, x) == Cardinality({i \in DOMAIN seq : seq[i] = x})

\* free() of every word of `seq` in turn; free(NULL) does nothing.
ecpg_free(cnt, seq) == [a \in DOMAIN cnt |-> cnt[a] + CountIn(seq, a)]

\* ------------------------------------------------------------ ecpg_add_mem
\* Mutant: the marker bit is set on the new node and left on the old head.
ecpg_add_mem_KeepsOldFlag(nd, head, am, ptr) ==
    IF am = NULL
    THEN [node |-> nd, head |-> head, ret |-> FALSE]
    ELSE LET n1 == [nd EXCEPT ![am] = [pointer |-> ptr, next |-> head]]
             auto_clear_disabled ==
                 IF head # NULL THEN Flag(n1[head].pointer) ELSE 0
             n3 == IF auto_clear_disabled = 1
                   THEN [n1 EXCEPT ![am].pointer = SetFlag(@, 1)]
                   ELSE n1
         IN  [node |-> n3, head |-> am, ret |-> TRUE]

\* Mutant: the marker bit is removed from the old head and set nowhere.
ecpg_add_mem_DropsFlag(nd, head, am, ptr) ==
    IF am = NULL
    THEN [node |-> nd, head |-> head, ret |-> FALSE]
    ELSE LET n1 == [nd EXCEPT ![am] = [pointer |-> ptr, next |-> head]]
             n2 == IF head # NULL
                   THEN [n1 EXCEPT ![head].pointer = SetFlag(@, 0)]
                   ELSE n1
         IN  [node |-> n2, head |-> am, ret |-> TRUE]

\* Mutant: the marker bit is removed from the head before the result of
\* ecpg_alloc is tested.
ecpg_add_mem_ClearsBeforeCheck(nd, head, am, ptr) ==
    LET n0 == IF head # NULL
              THEN [nd EXCEPT ![head].pointer = SetFlag(@, 0)]
              ELSE nd
        auto_clear_disabled ==
            IF head # NULL THEN Flag(nd[head].pointer) ELSE 0
    IN  IF am = NULL
        THEN [node |-> n0, head |-> head, ret |-> FALSE]
        ELSE [node |-> [n0 EXCEPT ![am] =
                           [pointer |-> IF auto_clear_disabled = 1
                                        THEN SetFlag(ptr, 1) ELSE ptr,
                            next |-> head]],
              head |-> am, ret |-> TRUE]

\* Mutant: a NULL pointer is refused.
ecpg_add_mem_RejectsNull(nd, head, am, ptr) ==
    IF am = NULL \/ ptr = NULL
    THEN [node |-> nd, head |-> head, ret |-> FALSE]
    ELSE LET n1 == [nd EXCEPT ![am] = [pointer |-> ptr, next |-> head]]
             auto_clear_disabled ==
                 IF head # NULL THEN Flag(n1[head].pointer) ELSE 0
             n2 == IF head # NULL
                   THEN [n1 EXCEPT ![head].pointer = SetFlag(@, 0)]
                   ELSE n1
             n3 == IF auto_clear_disabled = 1
                   THEN [n2 EXCEPT ![am].pointer = SetFlag(@, 1)]
                   ELSE n2
         IN  [node |-> n3, head |-> am, ret |-> TRUE]

\* `am` is the result of the node's ecpg_alloc, `head` of get_auto_allocs().
ecpg_add_mem(nd, head, am, ptr) ==
    IF am = NULL
    THEN [node |-> nd, head |-> head, ret |-> FALSE]
    ELSE LET n1 == [nd EXCEPT ![am] = [pointer |-> ptr, next |-> head]]
             auto_clear_disabled ==
                 IF head # NULL THEN Flag(n1[head].pointer) ELSE 0
             n2 == IF head # NULL
                   THEN [n1 EXCEPT ![head].pointer = SetFlag(@, 0)]
                   ELSE n1
             n3 == IF auto_clear_disabled = 1
                   THEN [n2 EXCEPT ![am].pointer = SetFlag(@, 1)]
                   ELSE n2
         IN  [node |-> n3, head |-> am, ret |-> TRUE]

\* --------------------------------------------------------- ecpg_auto_alloc
\* Mutant: the payload is not freed when ecpg_add_mem fails.
ecpg_auto_alloc_LeaksPayload(nd, head, ptr, am) ==
    IF ptr = NULL
    THEN [node |-> nd, head |-> head, ret |-> NULL, freed |-> <<>>]
    ELSE LET r == ecpg_add_mem(nd, head, am, ptr)
         IN  [node |-> r.node, head |-> r.head,
              ret |-> IF r.ret THEN ptr ELSE NULL, freed |-> <<>>]

\* `ptr` is the result of the payload's ecpg_alloc; `freed` lists the words
\* handed to ecpg_free.
ecpg_auto_alloc(nd, head, ptr, am) ==
    IF ptr = NULL
    THEN [node |-> nd, head |-> head, ret |-> NULL, freed |-> <<>>]
    ELSE LET r == ecpg_add_mem(nd, head, am, ptr)
         IN  IF ~r.ret
             THEN [node |-> r.node, head |-> r.head, ret |-> NULL,
                   freed |-> <<ptr>>]
             ELSE [node |-> r.node, head |-> r.head, ret |-> ptr,
                   freed |-> <<>>]

\* ------------------------------------------------------- the do/while walk
\* The nodes visited from `am` on, with the pointer word each holds.
RECURSIVE Walk(_, _, _)
Walk(nd, am, fuel) ==
    IF am = NULL \/ fuel = 0
    THEN <<>>
    ELSE <<[act |-> am, pointer |-> nd[am].pointer]>>
         \o Walk(nd, nd[am].next, fuel - 1)

Acts(w) == [i \in DOMAIN w |-> w[i].act]
Pointers(w) == [i \in DOMAIN w |-> w[i].pointer]

\* ------------------------------------------------------- ECPGfree_auto_mem
\* Mutant: the marker bit of the head is not reset before the walk.
ECPGfree_auto_mem_NoFlagReset(nd, am) ==
    IF am = NULL
    THEN [node |-> nd, head |-> am, nodes |-> <<>>, ptrs |-> <<>>]
    ELSE [node |-> nd, head |-> NULL,
          nodes |-> Acts(Walk(nd, am, MaxNodes + 1)),
          ptrs |-> Pointers(Walk(nd, am, MaxNodes + 1))]

\* Mutant: the walk frees each node and forgets ecpg_free(act->pointer).
ECPGfree_auto_mem_KeepsPointers(nd, am) ==
    IF am = NULL
    THEN [node |-> nd, head |-> am, nodes |-> <<>>, ptrs |-> <<>>]
    ELSE LET n1 == IF Flag(nd[am].pointer) = 1
                   THEN [nd EXCEPT ![am].pointer = SetFlag(@, 0)]
                   ELSE nd
         IN  [node |-> n1, head |-> NULL,
              nodes |-> Acts(Walk(n1, am, MaxNodes + 1)), ptrs |-> <<>>]

\* `nodes` and `ptrs` list what is handed to ecpg_free, in order.
ECPGfree_auto_mem(nd, am) ==
    IF am = NULL
    THEN [node |-> nd, head |-> am, nodes |-> <<>>, ptrs |-> <<>>]
    ELSE LET n1 == IF Flag(nd[am].pointer) = 1
                   THEN [nd EXCEPT ![am].pointer = SetFlag(@, 0)]
                   ELSE nd
             w  == Walk(n1, am, MaxNodes + 1)
         IN  [node |-> n1, head |-> NULL,
              nodes |-> Acts(w), ptrs |-> Pointers(w)]

\* ----------------------------------------------------- ecpg_clear_auto_mem
\* Mutant: the auto_clear_disabled test is missing.
ecpg_clear_auto_mem_IgnoresFlag(nd, am) ==
    IF am = NULL
    THEN [node |-> nd, head |-> am, nodes |-> <<>>, ptrs |-> <<>>]
    ELSE [node |-> nd, head |-> NULL,
          nodes |-> Acts(Walk(nd, am, MaxNodes + 1)), ptrs |-> <<>>]

\* Mutant: the walk also frees act->pointer, as ECPGfree_auto_mem does.
ecpg_clear_auto_mem_FreesPointers(nd, am) ==
    IF am = NULL
    THEN [node |-> nd, head |-> am, nodes |-> <<>>, ptrs |-> <<>>]
    ELSE IF Flag(nd[am].pointer) = 1
    THEN [node |-> nd, head |-> am, nodes |-> <<>>, ptrs |-> <<>>]
    ELSE [node |-> nd, head |-> NULL,
          nodes |-> Acts(Walk(nd, am, MaxNodes + 1)),
          ptrs |-> Pointers(Walk(nd, am, MaxNodes + 1))]

ecpg_clear_auto_mem(nd, am) ==
    IF am = NULL
    THEN [node |-> nd, head |-> am, nodes |-> <<>>, ptrs |-> <<>>]
    ELSE IF Flag(nd[am].pointer) = 1
    THEN [node |-> nd, head |-> am, nodes |-> <<>>, ptrs |-> <<>>]
    ELSE [node |-> nd, head |-> NULL,
          nodes |-> Acts(Walk(nd, am, MaxNodes + 1)), ptrs |-> <<>>]

\* -------------------------------------- ECPGdisable_auto_mem_clear_on_exec
\* Mutant: the placeholder is flagged but set_auto_allocs(am) is missing.
ECPGdisable_auto_mem_clear_on_exec_DropsPlaceholder(nd, head, am) ==
    IF head # NULL
    THEN [node |-> [nd EXCEPT ![head].pointer = SetFlag(@, 1)],
          head |-> head, fault |-> FALSE]
    ELSE IF am = NULL
    THEN [node |-> nd, head |-> NULL, fault |-> TRUE]
    ELSE [node |-> [nd EXCEPT ![am] = [pointer |-> SetFlag(NULL, 1),
                                       next |-> NULL]],
          head |-> NULL, fault |-> FALSE]

\* Mutant: the marker bit of an existing head is flipped, not set.
ECPGdisable_auto_mem_clear_on_exec_Toggles(nd, head, am) ==
    IF head # NULL
    THEN [node |-> [nd EXCEPT ![head].pointer = SetFlag(@, 1 - Flag(@))],
          head |-> head, fault |-> FALSE]
    ELSE IF am = NULL
    THEN [node |-> nd, head |-> NULL, fault |-> TRUE]
    ELSE [node |-> [nd EXCEPT ![am] = [pointer |-> SetFlag(NULL, 1),
                                       next |-> NULL]],
          head |-> am, fault |-> FALSE]

\* `am` is the result of ecpg_alloc when the thread has no list.  `fault`:
\* the final store went through a null pointer.
ECPGdisable_auto_mem_clear_on_exec(nd, head, am) ==
    IF head # NULL
    THEN [node |-> [nd EXCEPT ![head].pointer = SetFlag(@, 1)],
          head |-> head, fault |-> FALSE]
    ELSE IF am = NULL
    THEN [node |-> nd, head |-> NULL, fault |-> TRUE]
    ELSE [node |-> [nd EXCEPT ![am] = [pointer |-> SetFlag(NULL, 1),
                                       next |-> NULL]],
          head |-> am, fault |-> FALSE]

\* ---------------------------------------------------------------- helpers
Running(t) == ~crashed /\ alive[t] = "run" /\ pc[t] = "idle"

\* A call that reaches get_auto_allocs() comes back from pthread_once with
\* the key made; a call that returns before it leaves the key alone.
UseKey(reached) ==
    /\ keyCreated' = IF reached THEN OnceKey(keyCreated) ELSE keyCreated
    /\ once' = IF reached THEN "done" ELSE once

\* What the code reads as "auto-clear is disabled for thread t".
Suppressed(t) == slot[t] # NULL /\ Flag(node[slot[t]].pointer) = 1

\* The thread's list, head first.
Chain(t) == Acts(Walk(node, slot[t], MaxNodes + 1))

\* A freed struct auto_mem is never read again; its words are forgotten.
Forget(nd, freed) ==
    [n \in NodeIds |->
        IF \E i \in DOMAIN freed : freed[i] = n THEN BlankNode ELSE nd[n]]

Record(t, op, ptr, am, ret, oom) ==
    /\ last' = [thr |-> t, op |-> op, ptr |-> ptr, am |-> am, ret |-> ret,
                oom |-> oom]
    /\ prev' = IF prev = <<>>
               THEN prev
               ELSE <<[thr |-> last.thr, op |-> last.op], prev[1]>>

\* ------------------------------------------------------------------- Init
Init ==
    /\ slot = [t \in Threads |-> NULL]
    /\ node = [n \in NodeIds |-> BlankNode]
    /\ nalloc = 0
    /\ balloc = 0
    /\ nfree = [n \in NodeIds |-> 0]
    /\ pfree = [a \in Addrs |-> 0]
    /\ keyCreated = 0
    /\ once = "init"
    /\ pc = [t \in Threads |-> "idle"]
    /\ alive = [t \in Threads |-> "run"]
    /\ crashed = FALSE
    /\ regs = [t \in Threads |-> {}]
    /\ disabled = [t \in Threads |-> FALSE]
    /\ last = [thr |-> 0, op |-> "init", ptr |-> NULL, am |-> NULL,
               ret |-> NULL, oom |-> FALSE]
    /\ prev = <<[thr |-> 0, op |-> "init"], [thr |-> 0, op |-> "init"]>>

\* ---------------------------------------------------------------- actions
\* register_new: ecpg_auto_alloc(size, lineno) called on thread t.
RegisterNew(t) ==
    /\ Running(t)
    /\ \E payOK, nodeOK \in BOOLEAN :
        /\ payOK => balloc < MaxBlocks
        /\ nodeOK => (payOK /\ nalloc < MaxNodes)
        /\ LET ptr == AllocBlock(payOK)
               am  == IF ptr = NULL THEN NULL ELSE AllocNode(nodeOK)
               r   == ecpg_auto_alloc(node, get_auto_allocs(slot, t), ptr, am)
           IN  /\ balloc' = IF ptr # NULL THEN balloc + 1 ELSE balloc
               /\ nalloc' = IF am # NULL THEN nalloc + 1 ELSE nalloc
               /\ UseKey(am # NULL)
               /\ node' = r.node
               /\ slot' = set_auto_allocs(slot, t, r.head)
               /\ pfree' = ecpg_free(pfree, r.freed)
               /\ regs' = IF am # NULL
                          THEN [regs EXCEPT ![t] = @ \cup {<<am, ptr>>}]
                          ELSE regs
               /\ Record(t, "register_new", ptr, am, r.ret,
                         ptr = NULL \/ am = NULL)
    /\ UNCHANGED <<nfree, pc, alive, crashed, disabled>>

\* register_existing: ecpg_add_mem(ptr, lineno) called on thread t with NULL
\* or with a block the caller allocated and owns.
RegisterExisting(t) ==
    /\ Running(t)
    /\ \E own, nodeOK \in BOOLEAN :
        /\ own => balloc < MaxBlocks
        /\ nodeOK => nalloc < MaxNodes
        /\ LET ptr == AllocBlock(own)
               am  == AllocNode(nodeOK)
               r   == ecpg_add_mem(node, get_auto_allocs(slot, t), am, ptr)
           IN  /\ balloc' = IF ptr # NULL THEN balloc + 1 ELSE balloc
               /\ nalloc' = IF am # NULL THEN nalloc + 1 ELSE nalloc
               /\ UseKey(am # NULL)
               /\ node' = r.node
               /\ slot' = set_auto_allocs(slot, t, r.head)
               /\ regs' = IF am # NULL
                          THEN [regs EXCEPT ![t] = @ \cup {<<am, ptr>>}]
                          ELSE regs
               /\ Record(t, "register_existing", ptr, am,
                         IF r.ret THEN 1 ELSE 0, am = NULL)
    /\ UNCHANGED <<nfree, pfree, pc, alive, crashed, disabled>>

\* release_all: ECPGfree_auto_mem() called on thread t.
ReleaseAll(t) ==
    /\ Running(t)
    /\ LET r == ECPGfree_auto_mem(node, get_auto_allocs(slot, t))
       IN  /\ UseKey(TRUE)
           /\ node' = Forget(r.node, r.nodes)
           /\ slot' = set_auto_allocs(slot, t, r.head)
           /\ pfree' = ecpg_free(pfree, r.ptrs)
           /\ nfree' = ecpg_free(nfree, r.nodes)
    /\ regs' = [regs EXCEPT ![t] = {}]
    /\ disabled' = [disabled EXCEPT ![t] = FALSE]
    /\ Record(t, "release_all", NULL, NULL, NULL, FALSE)
    /\ UNCHANGED <<nalloc, balloc, pc, alive, crashed>>

\* clear_if_not_suppressed: ecpg_clear_auto_mem() called on thread t.
Clear(t) ==
    /\ Running(t)
    /\ LET r == ecpg_clear_auto_mem(node, get_auto_allocs(slot, t))
       IN  /\ UseKey(TRUE)
           /\ node' = Forget(r.node, r.nodes)
           /\ slot' = set_auto_allocs(slot, t, r.head)
           /\ pfree' = ecpg_free(pfree, r.ptrs)
           /\ nfree' = ecpg_free(nfree, r.nodes)
           /\ regs' = IF r.head = NULL THEN [regs EXCEPT ![t] = {}] ELSE regs
    /\ Record(t, "clear", NULL, NULL, NULL, FALSE)
    /\ UNCHANGED <<nalloc, balloc, pc, alive, crashed, disabled>>

\* disable_auto_clear: ECPGdisable_auto_mem_clear_on_exec() called on
\* thread t.  With no list and a failed ecpg_alloc the last statement stores
\* through a null pointer: the process dies, or the store lands unnoticed.
Disable(t) ==
    /\ Running(t)
    /\ \E nodeOK, segv \in BOOLEAN :
        /\ nodeOK => (slot[t] = NULL /\ nalloc < MaxNodes)
        /\ slot[t] # NULL => ~nodeOK
        /\ LET am == IF slot[t] = NULL THEN AllocNode(nodeOK) ELSE NULL
               r  == ECPGdisable_auto_mem_clear_on_exec(
                         node, get_auto_allocs(slot, t), am)
           IN  /\ segv => r.fault
               /\ nalloc' = IF am # NULL THEN nalloc + 1 ELSE nalloc
               /\ UseKey(TRUE)
               /\ node' = r.node
               /\ slot' = set_auto_allocs(slot, t, r.head)
               /\ crashed' = segv
               /\ regs' = IF am # NULL
                          THEN [regs EXCEPT ![t] = @ \cup {<<am, NULL>>}]
                          ELSE regs
               /\ disabled' = IF r.fault THEN disabled
                              ELSE [disabled EXCEPT ![t] = TRUE]
               /\ Record(t, "disable", NULL, am, NULL, r.fault)
    /\ UNCHANGED <<balloc, nfree, pfree, pc, alive>>

\* Thread t terminates.  For a key whose value is not NULL the thread
\* library first sets the value to NULL and then calls the key's destructor
\* with the old value; auto_mem_destructor ignores its argument and calls
\* ECPGfree_auto_mem(), which looks the list up through the key again.
ThreadExit(t) ==
    /\ Running(t)
    /\ LET old == slot[t]
           cleared == [slot EXCEPT ![t] = NULL]
           run == keyCreated > 0 /\ old # NULL
           r == IF run
                THEN ECPGfree_auto_mem(node, get_auto_allocs(cleared, t))
                ELSE [node |-> node, head |-> NULL, nodes |-> <<>>,
                      ptrs |-> <<>>]
       IN  /\ node' = Forget(r.node, r.nodes)
           /\ slot' = set_auto_allocs(cleared, t, r.head)
           /\ pfree' = ecpg_free(pfree, r.ptrs)
           /\ nfree' = ecpg_free(nfree, r.nodes)
    /\ alive' = [alive EXCEPT ![t] = "exited"]
    /\ disabled' = [disabled EXCEPT ![t] = FALSE]
    /\ Record(t, "exit", NULL, NULL, NULL, FALSE)
    /\ UNCHANGED <<nalloc, balloc, keyCreated, once, pc, crashed, regs>>

\* The calls of one thread, in any order: a thread's list is reached only
\* through its own value of auto_mem_key.
Next ==
    \E t \in Callers :
        \/ RegisterNew(t)
        \/ RegisterExisting(t)
        \/ ReleaseAll(t)
        \/ Clear(t)
        \/ Disable(t)
        \/ ThreadExit(t)

Spec == Init /\ [][Next]_vars

\* ------------------------------------------------- two threads, first use
\* Thread t is the first to enter pthread_once: it is the one to run
\* auto_mem_key_init.
OnceEnter(t) ==
    /\ Running(t)
    /\ once = "init"
    /\ once' = "running"
    /\ pc' = [pc EXCEPT ![t] = "init"]
    /\ Record(t, "once_enter", NULL, NULL, NULL, FALSE)
    /\ UNCHANGED <<slot, node, nalloc, balloc, nfree, pfree, keyCreated,
                   alive, crashed, regs, disabled>>

\* auto_mem_key_init: pthread_key_create(&auto_mem_key, auto_mem_destructor),
\* after which pthread_once is complete.
KeyInit(t) ==
    /\ ~crashed
    /\ pc[t] = "init"
    /\ keyCreated' = keyCreated + 1
    /\ once' = "done"
    /\ pc' = [pc EXCEPT ![t] = "idle"]
    /\ Record(t, "key_init", NULL, NULL, NULL, FALSE)
    /\ UNCHANGED <<slot, node, nalloc, balloc, nfree, pfree, alive, crashed,
                   regs, disabled>>

\* A call that goes through get_auto_allocs() gets past pthread_once only
\* as OnceReturns allows; the allocations stay within the two-thread limits.
ThroughOnce ==
    /\ once' # once => OnceReturns(once)
    /\ nalloc' <= MaxNodesMT
    /\ balloc' <= MaxBlocksMT

RegisterNewMT(t) == RegisterNew(t) /\ ThroughOnce
RegisterExistingMT(t) == RegisterExisting(t) /\ ThroughOnce
ReleaseAllMT(t) == ReleaseAll(t) /\ ThroughOnce
ClearMT(t) == Clear(t) /\ ThroughOnce
DisableMT(t) == Disable(t) /\ ThroughOnce

\* The calls of two threads interleaved, the first pthread_once in two steps.
NextMT ==
    \E t \in Threads :
        \/ OnceEnter(t)
        \/ KeyInit(t)
        \/ RegisterNewMT(t)
        \/ RegisterExistingMT(t)
        \/ ReleaseAllMT(t)
        \/ ClearMT(t)
        \/ DisableMT(t)
        \/ ThreadExit(t)

\* As Init, with no history of earlier steps kept.
InitMT ==
    /\ slot = [t \in Threads |-> NULL]
    /\ node = [n \in NodeIds |-> BlankNode]
    /\ nalloc = 0
    /\ balloc = 0
    /\ nfree = [n \in NodeIds |-> 0]
    /\ pfree = [a \in Addrs |-> 0]
    /\ keyCreated = 0
    /\ once = "init"
    /\ pc = [t \in Threads |-> "idle"]
    /\ alive = [t \in Threads |-> "run"]
    /\ crashed = FALSE
    /\ regs = [t \in Threads |-> {}]
    /\ disabled = [t \in Threads |-> FALSE]
    /\ last = [thr |-> 0, op |-> "init", ptr |-> NULL, am |-> NULL,
               ret |-> NULL, oom |-> FALSE]
    /\ prev = <<>>

SpecMT == InitMT /\ [][NextMT]_vars

\* ------------------------------------------------- any pointer value
\* register_existing with an address one byte inside a block the caller
\* owns: ecpg_add_mem takes a void * and stores whatever word it is given,
\* here a word whose bit 0 is set.
RegisterUnaligned(t) ==
    /\ Running(t)
    /\ balloc < MaxBlocks
    /\ \E nodeOK \in BOOLEAN :
        /\ nodeOK => nalloc < MaxNodes
        /\ LET ptr == AllocBlock(TRUE) + 1
               am  == AllocNode(nodeOK)
               r   == ecpg_add_mem(node, get_auto_allocs(slot, t), am, ptr)
           IN  /\ balloc' = balloc + 1
               /\ nalloc' = IF am # NULL THEN nalloc + 1 ELSE nalloc
               /\ UseKey(am # NULL)
               /\ node' = r.node
               /\ slot' = set_auto_allocs(slot, t, r.head)
               /\ regs' = IF am # NULL
                          THEN [regs EXCEPT ![t] = @ \cup {<<am, ptr>>}]
                          ELSE regs
               /\ Record(t, "register_existing", ptr, am,
                         IF r.ret THEN 1 ELSE 0, am = NULL)
    /\ UNCHANGED <<nfree, pfree, pc, alive, crashed, disabled>>

\* The calls of one thread when register_existing may be given any word.
NextAny ==
    \E t \in Callers :
        \/ RegisterNew(t)
        \/ RegisterExisting(t)
        \/ RegisterUnaligned(t)
        \/ ReleaseAll(t)
        \/ Clear(t)
        \/ Disable(t)
        \/ ThreadExit(t)

SpecAny == Init /\ [][NextAny]_vars

\* ============================================================== properties
\* The nodes and the pointers of a set of <<node, pointer>> registrations.
RegNodes(rs) == {e[1] : e \in rs}
RegPtrs(rs) == {e[2] : e \in rs}

\* The step just taken is a call of `op` on thread t.
Called(t, op) == last'.thr = t /\ last'.op = op

\* The step releases every node and every pointer t has registered since its
\* list was last empty, each for the first time, and nothing else.
ReleasesAllOnce(t) ==
    /\ \A e \in regs[t] :
        /\ nfree[e[1]] = 0 /\ nfree'[e[1]] = 1
        /\ e[2] # NULL => (pfree[e[2]] = 0 /\ pfree'[e[2]] = 1)
    /\ \A n \in NodeIds \ RegNodes(regs[t]) : nfree'[n] = nfree[n]
    /\ \A a \in Addrs \ RegPtrs(regs[t]) : pfree'[a] = pfree[a]

\* The step releases nothing.
ReleasesNothing == nfree' = nfree /\ pfree' = pfree

\* No block has been handed to free() twice.
NoDoubleRelease ==
    /\ \A n \in NodeIds : nfree[n] <= 1
    /\ \A a \in Addrs : pfree[a] <= 1

NumReleased(cnt) == Cardinality({x \in DOMAIN cnt : cnt[x] = 1})

\* C1: a release_all that follows only registrations (no disable since the
\* list was last empty) releases every registered pointer and every tracking
\* node exactly once and leaves the thread's list empty.
C1_ReleaseAllAfterRegistrations ==
    /\ []NoDoubleRelease
    /\ [][\A t \in Threads :
            (Called(t, "release_all") /\ ~disabled[t]) =>
                (ReleasesAllOnce(t) /\ slot'[t] = NULL)]_vars

C1_Witness ==
    /\ last.op = "release_all"
    /\ prev[1].op = "register_existing"
    /\ prev[2].op = "register_new"
    /\ slot[1] = NULL
    /\ NumReleased(nfree) >= 3
    /\ NumReleased(pfree) >= 3

\* C2: a clear_if_not_suppressed that finds suppression active releases
\* nothing and leaves the list as it is, and the release_all that follows
\* disable_auto_clear, clear_if_not_suppressed releases every tracked pointer
\* and node exactly once.
C2_SuppressedClearThenReleaseAll ==
    /\ []NoDoubleRelease
    /\ [][\A t \in Threads :
            /\ (Called(t, "clear") /\ Suppressed(t)) =>
                   (ReleasesNothing /\ slot' = slot /\ node' = node)
            /\ (/\ Called(t, "release_all")
                /\ last.thr = t /\ last.op = "clear"
                /\ prev[1].thr = t /\ prev[1].op = "disable") =>
                   (ReleasesAllOnce(t) /\ slot'[t] = NULL)]_vars

C2_Witness ==
    /\ last.op = "release_all"
    /\ prev[1].op = "clear"
    /\ prev[2].op = "disable"
    /\ slot[1] = NULL
    /\ NumReleased(nfree) >= 2
    /\ NumReleased(pfree) >= 2

\* C3: a clear_if_not_suppressed that finds no suppression releases every
\* tracking node of the list and no pointer and leaves the list empty, and a
\* release_all issued right after it releases nothing.
C3_UnsuppressedClearKeepsPointers ==
    [][\A t \in Threads :
        /\ (Called(t, "clear") /\ ~Suppressed(t)) =>
               /\ \A e \in regs[t] : nfree[e[1]] = 0 /\ nfree'[e[1]] = 1
               /\ \A n \in NodeIds \ RegNodes(regs[t]) : nfree'[n] = nfree[n]
               /\ pfree' = pfree
               /\ slot'[t] = NULL
        /\ (/\ Called(t, "release_all")
            /\ last.thr = t /\ last.op = "clear" /\ slot[t] = NULL) =>
               ReleasesNothing]_vars

C3_Witness ==
    /\ last.op = "release_all"
    /\ prev[1].op = "clear"
    /\ prev[2].op = "register_new"
    /\ NumReleased(nfree) >= 2
    /\ NumReleased(pfree) = 0
    /\ balloc >= 2

\* Every node of t's list but the head has the marker bit clear.
HeadOnlyFlag(t) ==
    \A i \in 2..Len(Chain(t)) : Flag(node[Chain(t)[i]].pointer) = 0

Registering == {"register_new", "register_existing"}

\* C4: only the head of a thread's list can carry the suppression flag, and
\* a registration onto a suppressed list puts the new node in front with the
\* flag, the old nodes behind it in their order, unflagged and otherwise
\* untouched.
C4_FlagOnlyOnHead ==
    /\ [](\A t \in Threads : HeadOnlyFlag(t))
    /\ [][\A t \in Threads :
            (/\ last'.thr = t /\ last'.op \in Registering
             /\ last'.am # NULL /\ Suppressed(t)) =>
                /\ Chain(t)' = <<last'.am>> \o Chain(t)
                /\ Flag(node'[last'.am].pointer) = 1
                /\ \A i \in DOMAIN Chain(t) :
                    /\ Flag(node'[Chain(t)[i]].pointer) = 0
                    /\ node'[Chain(t)[i]].pointer =
                           SetFlag(node[Chain(t)[i]].pointer, 0)
                    /\ node'[Chain(t)[i]].next = node[Chain(t)[i]].next]_vars

C4_Witness ==
    /\ last.op = "register_new"
    /\ prev[1].op = "disable"
    /\ prev[2].op = "register_new"
    /\ Len(Chain(1)) = 4
    /\ Suppressed(1)
    /\ HeadOnlyFlag(1)

\* C5: after a completed disable_auto_clear, suppression is active until
\* release_all: registrations keep it, clear_if_not_suppressed does nothing,
\* and on a running thread it ends only in a release_all call.
C5_SuppressionLastsUntilReleaseAll ==
    /\ [](\A t \in Threads : disabled[t] => Suppressed(t))
    /\ [][\A t \in Threads : Suppressed(t) =>
            /\ (last'.thr = t /\ last'.op \in Registering) => Suppressed(t)'
            /\ Called(t, "clear") =>
                   (Suppressed(t)' /\ ReleasesNothing
                    /\ Chain(t)' = Chain(t))
            /\ (~Suppressed(t)' /\ alive'[t] = "run") =>
                   Called(t, "release_all")]_vars

C5_Witness ==
    /\ last.op = "clear"
    /\ prev[1].op = "register_existing"
    /\ prev[2].op = "disable"
    /\ disabled[1]
    /\ Suppressed(1)
    /\ Len(Chain(1)) >= 3
    /\ NumReleased(nfree) = 0

\* C6: a release_all that finds suppression active still releases every
\* tracked pointer and node exactly once and empties the list, suppression
\* is inactive afterwards, and a clear_if_not_suppressed with no disable
\* since then is not skipped.
C6_ReleaseAllIgnoresSuppression ==
    /\ []NoDoubleRelease
    /\ [][\A t \in Threads :
            /\ (Called(t, "release_all") /\ Suppressed(t)) =>
                   (ReleasesAllOnce(t) /\ slot'[t] = NULL /\ ~Suppressed(t)')
            /\ (Called(t, "clear") /\ ~disabled[t]) =>
                   (slot'[t] = NULL
                    /\ \A n \in RegNodes(regs[t]) : nfree'[n] = 1)]_vars

C6_Witness ==
    /\ last.op = "release_all"
    /\ prev[1].op = "register_new"
    /\ prev[2].op = "disable"
    /\ slot[1] = NULL
    /\ ~Suppressed(1)
    /\ NumReleased(nfree) >= 3
    /\ NumReleased(pfree) >= 2

\* C7: when a thread ends, every pointer and every node it still has
\* registered has been released.
C7_ThreadExitReleasesAll ==
    \A t \in Threads :
        alive[t] = "exited" =>
            \A e \in regs[t] :
                /\ nfree[e[1]] = 1
                /\ e[2] # NULL => pfree[e[2]] = 1

\* C8: a disable_auto_clear right after a completed disable_auto_clear
\* leaves the flag on the head, the list as it was, and releases and
\* allocates nothing.
C8_DoubleDisableIdempotent ==
    [][\A t \in Threads :
        (/\ Called(t, "disable")
         /\ last.thr = t /\ last.op = "disable" /\ ~last.oom) =>
            /\ Suppressed(t) /\ Suppressed(t)'
            /\ Chain(t)' = Chain(t)
            /\ node' = node /\ slot' = slot
            /\ nalloc' = nalloc
            /\ ReleasesNothing]_vars

C8_Witness ==
    /\ last.op = "disable"
    /\ prev[1].op = "disable"
    /\ prev[2].op = "register_new"
    /\ Suppressed(1)
    /\ Len(Chain(1)) >= 1

\* C9: a register_new whose payload is allocated and whose node allocation
\* fails releases the payload exactly once, returns failure and leaves the
\* thread's list and suppression state as they were.
C9_RegisterNewNodeFailure ==
    [][\A t \in Threads :
        (Called(t, "register_new") /\ last'.ptr # NULL /\ last'.am = NULL) =>
            /\ last'.ret = NULL
            /\ pfree[last'.ptr] = 0 /\ pfree'[last'.ptr] = 1
            /\ \A a \in Addrs \ {last'.ptr} : pfree'[a] = pfree[a]
            /\ nfree' = nfree
            /\ slot' = slot /\ node' = node
            /\ Suppressed(t)' = Suppressed(t)]_vars

C9_Witness ==
    /\ last.op = "register_new"
    /\ last.ptr # NULL
    /\ last.am = NULL
    /\ last.ret = NULL
    /\ pfree[last.ptr] = 1
    /\ Suppressed(1)
    /\ Len(Chain(1)) >= 2

\* C10: a register_existing whose node allocation fails returns failure,
\* neither releases nor tracks the pointer, and leaves the thread's list and
\* suppression state as they were.
C10_RegisterExistingNodeFailure ==
    [][\A t \in Threads :
        (Called(t, "register_existing") /\ last'.am = NULL) =>
            /\ last'.ret = 0
            /\ ReleasesNothing
            /\ slot' = slot /\ node' = node
            /\ Suppressed(t)' = Suppressed(t)
            /\ regs' = regs
            /\ last'.ptr # NULL =>
                   \A i \in DOMAIN Chain(t)' :
                       SetFlag(node'[Chain(t)'[i]].pointer, 0) # last'.ptr]_vars

C10_Witness ==
    /\ last.op = "register_existing"
    /\ last.ptr # NULL
    /\ last.am = NULL
    /\ last.ret = 0
    /\ pfree[last.ptr] = 0
    /\ Suppressed(1)
    /\ Len(Chain(1)) >= 2

\* The call just made ran into a failed ecpg_alloc of a struct auto_mem.
NodeAllocFailed ==
    /\ last'.am = NULL
    /\ \/ last'.op = "register_new" /\ last'.ptr # NULL
       \/ last'.op = "register_existing"
       \/ last'.op = "disable" /\ slot[last'.thr] = NULL

\* C11: a failed node allocation in register_new, register_existing or
\* disable_auto_clear only raises the out-of-memory signal: the call ends
\* without a store through the null result, the process lives on, and the
\* thread's list is what it was.
C11_NodeAllocFailureOnlySignals ==
    [][NodeAllocFailed =>
        /\ last'.oom
        /\ ~crashed'
        /\ ~(last'.op = "disable" /\
             ECPGdisable_auto_mem_clear_on_exec(
                 node, get_auto_allocs(slot, last'.thr), NULL).fault)
        /\ slot' = slot /\ node' = node
        /\ nfree' = nfree]_vars

\* C12: a step of thread t leaves every other thread's slot, list, node
\* words, suppression state and registrations as they were and releases no
\* node and no pointer another thread tracks.
C12_ThreadsIndependent ==
    [][\A t, u \in Threads :
        (u # t /\ last'.thr = t) =>
            /\ slot'[u] = slot[u]
            /\ Chain(u)' = Chain(u)
            /\ Suppressed(u)' = Suppressed(u)
            /\ regs'[u] = regs[u]
            /\ \A i \in DOMAIN Chain(u) :
                /\ node'[Chain(u)[i]] = node[Chain(u)[i]]
                /\ nfree'[Chain(u)[i]] = nfree[Chain(u)[i]]
            /\ \A e \in regs[u] :
                e[2] # NULL => pfree'[e[2]] = pfree[e[2]]]_vars

C12_Witness ==
    /\ last.thr = 1
    /\ last.op = "release_all"
    /\ slot[1] = NULL
    /\ NumReleased(nfree) >= 1
    /\ NumReleased(pfree) >= 1
    /\ Suppressed(2)
    /\ \E e \in regs[2] : e[2] # NULL /\ pfree[e[2]] = 0 /\ nfree[e[1]] = 0

\* The step just taken got to get_auto_allocs(): it read or wrote the
\* thread's value of auto_mem_key.
UsedKey ==
    \/ last'.op \in {"release_all", "clear", "disable"}
    \/ last'.op \in Registering /\ last'.am # NULL

\* C14: auto_mem_key is created once at most, whichever threads race to
\* their first call, and a thread reads or writes its value of the key only
\* when the key's creation is complete.
C14_KeyCreatedOnce ==
    /\ [](keyCreated <= 1)
    /\ [](\A t \in Threads : slot[t] # NULL => keyCreated = 1)
    /\ [][UsedKey => (keyCreated = 1 /\ once = "done"
                      /\ keyCreated' = 1)]_vars

C14_Witness ==
    /\ keyCreated = 1
    /\ once = "done"
    /\ slot[1] # NULL
    /\ slot[2] # NULL
    /\ last.thr = 2

\* The blocks a step hands to free(): how many, over all addresses.
RECURSIVE SumUpTo(_, _)
SumUpTo(f, n) == IF n = 0 THEN 0 ELSE f[n] + SumUpTo(f, n - 1)
BlocksReleasedBy == SumUpTo(pfree', 2 * MaxBlocks + 1)
                    - SumUpTo(pfree, 2 * MaxBlocks + 1)

\* C13: disable_auto_clear on a thread with no list allocates one node that
\* holds no pointer and makes it the suppressed head; registrations go in
\* front of it; release_all then releases that node and, for it, no block.
C13_PlaceholderNode ==
    [][\A t \in Threads :
        /\ (Called(t, "disable") /\ slot[t] = NULL /\ last'.am # NULL) =>
              /\ nalloc' = nalloc + 1 /\ balloc' = balloc
              /\ Chain(t)' = <<last'.am>>
              /\ SetFlag(node'[last'.am].pointer, 0) = NULL
              /\ Suppressed(t)'
              /\ ReleasesNothing
        /\ (/\ last'.thr = t /\ last'.op \in Registering /\ last'.am # NULL
            /\ last.thr = t /\ last.op = "disable" /\ last.am # NULL) =>
              /\ Chain(t)' = <<last'.am, last.am>>
              /\ node'[last.am] = BlankNode
              /\ Suppressed(t)'
        /\ (/\ Called(t, "release_all")
            /\ last.thr = t /\ last.op = "disable" /\ last.am # NULL) =>
              /\ nfree[last.am] = 0 /\ nfree'[last.am] = 1
              /\ BlocksReleasedBy = 0
              /\ slot'[t] = NULL
        /\ (/\ Called(t, "release_all")
            /\ last.thr = t /\ last.op \in Registering /\ last.am # NULL
            /\ prev[1].thr = t /\ prev[1].op = "disable"
            /\ Len(Chain(t)) = 2
            /\ <<Chain(t)[2], NULL>> \in regs[t]) =>
              /\ \A i \in 1..2 : nfree'[Chain(t)[i]] = 1
              /\ BlocksReleasedBy = (IF last.ptr # NULL THEN 1 ELSE 0)
              /\ \A a \in Addrs : a % 2 = 1 => pfree'[a] = 0
              /\ slot'[t] = NULL]_vars

C13_Witness ==
    /\ last.op = "release_all"
    /\ prev[1].op = "disable"
    /\ prev[2].op = "init"
    /\ nalloc = 1
    /\ slot[1] = NULL
    /\ NumReleased(nfree) = 1
    /\ NumReleased(pfree) = 0

\* The pointers other than NULL among a set of registrations.
OwnedPtrs(rs) == RegPtrs(rs) \ {NULL}

\* C15: register_existing(NULL) whose node allocation succeeds reports no
\* out-of-memory condition and returns true; the new head owns no block;
\* the step releases nothing; and a later release_all or
\* clear_if_not_suppressed releases exactly the blocks that were registered
\* with an address, so none on behalf of the NULL registration.
C15_RegisterNullIsNoError ==
    [][\A t \in Threads :
        /\ (/\ Called(t, "register_existing")
            /\ last'.ptr = NULL /\ last'.am # NULL) =>
              /\ last'.ret = 1
              /\ ~last'.oom
              /\ slot'[t] = last'.am
              /\ SetFlag(node'[last'.am].pointer, 0) = NULL
              /\ balloc' = balloc
              /\ ReleasesNothing
        /\ (Called(t, "release_all") /\ NULL \in RegPtrs(regs[t])) =>
              /\ BlocksReleasedBy = Cardinality(OwnedPtrs(regs[t]))
              /\ \A a \in Addrs :
                    pfree'[a] # pfree[a] => a \in OwnedPtrs(regs[t])
              /\ \A e \in regs[t] : e[2] = NULL => nfree'[e[1]] = 1
        /\ (Called(t, "clear") /\ NULL \in RegPtrs(regs[t])) =>
              BlocksReleasedBy = 0]_vars

C15_Witness ==
    /\ last.op = "release_all"
    /\ prev[1].op = "register_existing"
    /\ prev[2].op = "init"
    /\ nalloc = 1
    /\ balloc = 0
    /\ slot[1] = NULL
    /\ NumReleased(nfree) = 1
    /\ NumReleased(pfree) = 0

\* C16: suppression of a thread becomes active only in a disable_auto_clear
\* call and inactive only when the list is released (release_all, or the
\* thread's exit); register_new and register_existing leave it as it was,
\* whatever pointer value is registered.
C16_SuppressionOnlyByDisable ==
    [][\A t \in Threads :
        /\ (~Suppressed(t) /\ Suppressed(t)') => Called(t, "disable")
        /\ (Suppressed(t) /\ ~Suppressed(t)') =>
              (Called(t, "release_all") \/ Called(t, "exit"))
        /\ (last'.thr = t /\ last'.op \in Registering) =>
              (Suppressed(t)' <=> Suppressed(t))]_vars

\* C17: in a release_all call each address is handed to free() as many times
\* as it was registered, so every node's pointer reaches free() exactly as
\* it was registered, whatever disable_auto_clear and later registrations
\* did to the flag kept in the same word.
C17_ReleasedAddressIsRegistered ==
    [][\A t \in Threads :
        Called(t, "release_all") =>
            /\ \A i \in DOMAIN Chain(t) : Chain(t)[i] \in RegNodes(regs[t])
            /\ \A a \in Addrs :
                  pfree'[a] - pfree[a]
                      = Cardinality({e \in regs[t] : e[2] = a})]_vars

\* C18: in every state each thread's chain ends (no cycle, no node twice),
\* holds only nodes that have not been released, and every node that was
\* allocated and not released is on the chain of some thread.
C18_ChainHoldsLiveNodes ==
    /\ \A t \in Threads :
        /\ Len(Chain(t)) <= MaxNodes
        /\ \A i, j \in DOMAIN Chain(t) :
              Chain(t)[i] = Chain(t)[j] => i = j
        /\ \A i \in DOMAIN Chain(t) :
              Chain(t)[i] <= nalloc /\ nfree[Chain(t)[i]] = 0
    /\ \A n \in NodeIds :
          (n <= nalloc /\ nfree[n] = 0) =>
              \E t \in Threads : \E i \in DOMAIN Chain(t) : Chain(t)[i] = n

====
